---- MODULE Spec2Model ----
(***************************************************************************)
(* Model of the zinc lexer (compiler/src/cst/lexer): the character Cursor, *)
(* the Lexeme / Token data model and the lookahead-buffered Lexer.         *)
(*                                                                         *)
(* A source text is a sequence of characters.  A character is a string of  *)
(* the alphabet below; its UTF-8 encoding is a sequence of bytes, a byte   *)
(* being a string as well (an ASCII character is its own single byte).     *)
(* A token's text is a slice of the encoded source, i.e. a byte sequence.  *)
(***************************************************************************)
EXTENDS Integers, Sequences, FiniteSets, TLC

\* Longest source text explored.
MaxLen == 3

\* Largest offset handed to peek_at_offset.
MaxPeek == 3

\* Largest offset handed to peek_kind_at_offset.
MaxKindOffset == 1

\* The characters source texts are drawn from: the two halves of each
\* compound token, a whitespace, a letter, a digit and one character that is
\* unrecognized and two bytes wide in UTF-8 (the section sign, named "U+00A7").
Alphabet == {"-", ">", ":", " ", "a", "1", "U+00A7"}

Inputs == UNION {[1..n -> Alphabet] : n \in 0..MaxLen}

\* Option<T>: None, or Some(v).
None == <<>>

Some(v) == <<v>>

----------------------------------------------------------------------------
\* char::len_utf8 and the encoding of a character / of a text.

Utf8(c) == IF c = "U+00A7" THEN <<"C2", "A7">> ELSE <<c>>

len_utf8(c) == Len(Utf8(c))

RECURSIVE Bytes(_)
Bytes(text) == IF text = <<>> THEN <<>> ELSE Utf8(Head(text)) \o Bytes(Tail(text))

\* The bytes that continue a character rather than start one.
ContinuationBytes == {"A7"}

\* str::is_char_boundary, for a byte index counted from 0.
is_char_boundary(bytes, index) ==
    \/ index = 0
    \/ index = Len(bytes)
    \/ index < Len(bytes) /\ bytes[index + 1] \notin ContinuationBytes

\* str::chars().count().
chars_count(bytes) == Cardinality({i \in 1..Len(bytes) : bytes[i] \notin ContinuationBytes})

\* &text[start..end]: the bytes from start to end, or a panic when the range
\* is out of bounds or cuts a character.
Str_slice(bytes, start, end) ==
    IF start <= end /\ end <= Len(bytes) /\ is_char_boundary(bytes, start) /\ is_char_boundary(bytes, end)
    THEN [value |-> SubSeq(bytes, start + 1, end), panic |-> FALSE]
    ELSE [value |-> <<>>, panic |-> TRUE]

----------------------------------------------------------------------------
\* Character predicates (lexer/mod.rs).

\* char::is_whitespace, char::is_ascii_alphabetic and char::is_ascii_digit,
\* restricted to the characters the model can name.
UnicodeWhitespace == {" ", "\t", "\n", "\r"}

AsciiAlphabetic == {"a", "b", "c", "d", "e", "f", "g", "h", "i", "j", "k", "l", "m", "n", "o", "p", "q", "r", "s", "t", "u", "v", "w", "x", "y", "z", "A", "B", "C", "D", "E", "F", "G", "H", "I", "J", "K", "L", "M", "N", "O", "P", "Q", "R", "S", "T", "U", "V", "W", "X", "Y", "Z"}

AsciiDigit == {"0", "1", "2", "3", "4", "5", "6", "7", "8", "9"}

\* The characters of Lexer::create's single-character table.
Punctuation == {",", ";", ":", "=", "-", ">", "{", "}", "(", ")"}

\* Every character the model names.
Char == Alphabet \cup UnicodeWhitespace \cup AsciiAlphabetic \cup AsciiDigit \cup Punctuation \cup {"_"}

is_whitespace == [next \in Char |-> next \in UnicodeWhitespace]

is_identifier_start == [next \in Char |-> next = "_" \/ next \in AsciiAlphabetic]

is_integer == [next \in Char |-> next \in AsciiDigit]

is_identifier_continue == [next \in Char |-> is_identifier_start[next] \/ is_integer[next]]

----------------------------------------------------------------------------
\* Token kinds and keywords (lexer/token.rs).

KeywordKind == {"Module", "Class", "Field", "Function", "Constant", "Mutable"}

Keyword(k) ==
    CASE k = "Module" -> "Keyword(Module)"
      [] k = "Class" -> "Keyword(Class)"
      [] k = "Field" -> "Keyword(Field)"
      [] k = "Function" -> "Keyword(Function)"
      [] k = "Constant" -> "Keyword(Constant)"
      [] k = "Mutable" -> "Keyword(Mutable)"

TokenKind == {"Whitespace", "Identifier", "Integer", "Comma", "Semicolon", "Colon", "Equals", "Minus", "GreaterThan", "RightArrow", "PathSeparator", "LeftBrace", "RightBrace", "LeftParentheses", "RightParentheses", "Unknown"} \cup {Keyword(k) : k \in KeywordKind}

\* impl TryFrom<&str> for KeywordKind: Ok(kind) as Some(kind), Err(()) as None.
KeywordKind_try_from(value) ==
    CASE value = <<"m", "o", "d", "u", "l", "e">> -> Some("Module")
      [] value = <<"c", "l", "a", "s", "s">> -> Some("Class")
      [] value = <<"l", "e", "t">> -> Some("Field")
      [] value = <<"f", "u", "n", "c", "t", "i", "o", "n">> -> Some("Function")
      [] value = <<"c", "o", "n", "s", "t", "a", "n", "t">> -> Some("Constant")
      [] value = <<"m", "u", "t", "a", "b", "l", "e">> -> Some("Mutable")
      [] OTHER -> None

\* Display writing the lower-cased name of the variant ("field" for Field).
KeywordKind_fmt_variant_name(k) ==
    CASE k = "Module" -> <<"m", "o", "d", "u", "l", "e">>
      [] k = "Class" -> <<"c", "l", "a", "s", "s">>
      [] k = "Field" -> <<"f", "i", "e", "l", "d">>
      [] k = "Function" -> <<"f", "u", "n", "c", "t", "i", "o", "n">>
      [] k = "Constant" -> <<"c", "o", "n", "s", "t", "a", "n", "t">>
      [] k = "Mutable" -> <<"m", "u", "t", "a", "b", "l", "e">>

\* impl fmt::Display for KeywordKind: the spelling written, as characters.
KeywordKind_fmt(k) ==
    CASE k = "Module" -> <<"m", "o", "d", "u", "l", "e">>
      [] k = "Class" -> <<"c", "l", "a", "s", "s">>
      [] k = "Field" -> <<"l", "e", "t">>
      [] k = "Function" -> <<"f", "u", "n", "c", "t", "i", "o", "n">>
      [] k = "Constant" -> <<"c", "o", "n", "s", "t", "a", "n", "t">>
      [] k = "Mutable" -> <<"m", "u", "t", "a", "b", "l", "e">>

\* Token accessors.
Token_start_offset(t) == t.start_offset

Token_length(t) == Len(t.text)

Token_end_offset(t) == Token_start_offset(t) + Token_length(t)

TokenKind_decompose(kind) ==
    CASE kind = "RightArrow" -> <<"Minus", "GreaterThan">>
      [] kind = "PathSeparator" -> <<"Colon", "Colon">>
      [] OTHER -> <<kind>>

\* TokenKind::combine: the combined token, nothing, or a panic of the slice.
TokenKind_combine(kind, text, tokens) ==
    LET is_consecutive ==
            \A i \in 1..(Len(tokens) - 1) :
                Token_end_offset(tokens[i]) = Token_start_offset(tokens[i + 1])
        expected == TokenKind_decompose(kind)
        actual == [i \in 1..Len(tokens) |-> tokens[i].kind]
    IN IF is_consecutive /\ expected = actual
       THEN IF tokens = <<>>
            THEN [result |-> None, panic |-> FALSE]
            ELSE LET start_offset == Token_start_offset(tokens[1])
                     end_offset == Token_end_offset(tokens[Len(tokens)])
                     slice == Str_slice(Bytes(text), start_offset, end_offset)
                 IN IF slice.panic
                    THEN [result |-> None, panic |-> TRUE]
                    ELSE [result |-> Some([kind |-> kind, start_offset |-> start_offset,
                                           text |-> slice.value]),
                          panic |-> FALSE]
       ELSE [result |-> None, panic |-> FALSE]

----------------------------------------------------------------------------
\* Cursor (lexer/lexeme.rs).  The Chars iterator is the number of characters
\* it has already yielded.

Cursor_new(text) ==
    [text |-> text, iterator |-> 0, char_offset |-> 0, char_length |-> 0,
     byte_offset |-> 0, byte_length |-> 0]

Cursor_current(c) ==
    [start_offset |-> c.char_offset,
     length |-> c.char_length,
     text |-> SubSeq(Bytes(c.text), c.byte_offset + 1, c.byte_offset + c.byte_length)]

\* Cursor::close returning the lexeme without starting a new one.
Cursor_close_without_reset(c) ==
    [lexeme |-> Cursor_current(c), cursor |-> c]

Cursor_close(c) ==
    [lexeme |-> Cursor_current(c),
     cursor |-> [c EXCEPT !.char_offset = @ + c.char_length, !.char_length = 0,
                          !.byte_offset = @ + c.byte_length, !.byte_length = 0]]

\* Cursor::consume counting a character into the lexeme even at end of input.
Cursor_consume_count_at_end(c) ==
    IF c.iterator >= Len(c.text)
    THEN [char |-> None, cursor |-> [c EXCEPT !.char_length = @ + 1]]
    ELSE LET next == c.text[c.iterator + 1]
         IN [char |-> Some(next),
             cursor |-> [c EXCEPT !.iterator = @ + 1, !.char_length = @ + 1,
                                  !.byte_length = @ + len_utf8(next)]]

\* Cursor::consume counting every character as one byte wide.
Cursor_consume_one_byte(c) ==
    IF c.iterator >= Len(c.text)
    THEN [char |-> None, cursor |-> c]
    ELSE LET next == c.text[c.iterator + 1]
         IN [char |-> Some(next),
             cursor |-> [c EXCEPT !.iterator = @ + 1, !.char_length = @ + 1,
                                  !.byte_length = @ + 1]]

Cursor_consume(c) ==
    IF c.iterator >= Len(c.text)
    THEN [char |-> None, cursor |-> c]
    ELSE LET next == c.text[c.iterator + 1]
         IN [char |-> Some(next),
             cursor |-> [c EXCEPT !.iterator = @ + 1, !.char_length = @ + 1,
                                  !.byte_length = @ + len_utf8(next)]]

\* Cursor::peek_at_offset looking one character too far (nth(offset + 1)).
Cursor_peek_at_offset_one_too_far(c, offset) ==
    IF c.iterator + offset + 1 < Len(c.text) THEN Some(c.text[c.iterator + offset + 2]) ELSE None

Cursor_peek_at_offset(c, offset) ==
    IF c.iterator + offset < Len(c.text) THEN Some(c.text[c.iterator + offset + 1]) ELSE None

Cursor_peek(c) == Cursor_peek_at_offset(c, 0)

\* Cursor::consume_while with `if` for `while`: at most one character consumed.
Cursor_consume_while_once(c, predicate) ==
    LET p == Cursor_peek(c)
    IN IF p # None /\ predicate[p[1]]
       THEN [consumed |-> 1, cursor |-> Cursor_consume(c).cursor]
       ELSE [consumed |-> 0, cursor |-> c]

RECURSIVE Cursor_consume_while(_, _)
Cursor_consume_while(c, predicate) ==
    LET p == Cursor_peek(c)
    IN IF p # None /\ predicate[p[1]]
       THEN LET rest == Cursor_consume_while(Cursor_consume(c).cursor, predicate)
            IN [consumed |-> rest.consumed + 1, cursor |-> rest.cursor]
       ELSE [consumed |-> 0, cursor |-> c]

----------------------------------------------------------------------------
\* Lexer (lexer/mod.rs).  A lexer value is [cursor, queue]; every operation
\* yields its result, the lexer it leaves behind and whether it panicked.

Lexer_new(text) == [cursor |-> Cursor_new(text), queue |-> <<>>]

Lexer_whitespace(c) ==
    [kind |-> "Whitespace", cursor |-> Cursor_consume_while(c, is_whitespace).cursor]

\* Lexer::identifier continuing an identifier over letters and underscores only.
Lexer_identifier_no_digits(c) ==
    LET after == Cursor_consume_while(c, is_identifier_start).cursor
        keyword == KeywordKind_try_from(Cursor_current(after).text)
    IN [kind |-> IF keyword # None THEN Keyword(keyword[1]) ELSE "Identifier",
        cursor |-> after]

\* Lexer::identifier taking a text that starts with a keyword for the keyword.
Lexer_identifier_keyword_prefix(c) ==
    LET after == Cursor_consume_while(c, is_identifier_continue).cursor
        text == Cursor_current(after).text
        starts == {k \in KeywordKind :
                      /\ Len(KeywordKind_fmt(k)) <= Len(text)
                      /\ SubSeq(text, 1, Len(KeywordKind_fmt(k))) = KeywordKind_fmt(k)}
    IN [kind |-> IF starts # {} THEN Keyword(CHOOSE k \in starts : TRUE) ELSE "Identifier",
        cursor |-> after]

Lexer_identifier(c) ==
    LET after == Cursor_consume_while(c, is_identifier_continue).cursor
        keyword == KeywordKind_try_from(Cursor_current(after).text)
    IN [kind |-> IF keyword # None THEN Keyword(keyword[1]) ELSE "Identifier",
        cursor |-> after]

Lexer_integer(c) ==
    [kind |-> "Integer", cursor |-> Cursor_consume_while(c, is_integer).cursor]

\* Lexer::create's match fusing '-' '>' into RightArrow and ':' ':' into
\* PathSeparator by itself.
Lexer_classify_combining(next, c) ==
    CASE is_whitespace[next] -> Lexer_whitespace(c)
      [] ~is_whitespace[next] /\ is_identifier_start[next] -> Lexer_identifier(c)
      [] ~is_whitespace[next] /\ ~is_identifier_start[next] /\ is_integer[next] -> Lexer_integer(c)
      [] OTHER ->
           IF next = "-" /\ Cursor_peek(c) = Some(">")
           THEN [kind |-> "RightArrow", cursor |-> Cursor_consume(c).cursor]
           ELSE IF next = ":" /\ Cursor_peek(c) = Some(":")
           THEN [kind |-> "PathSeparator", cursor |-> Cursor_consume(c).cursor]
           ELSE [kind |-> CASE next = "-" -> "Minus"
                            [] next = ">" -> "GreaterThan"
                            [] next = ":" -> "Colon"
                            [] OTHER -> "Unknown",
                 cursor |-> c]

\* Lexer::create's match extending an Unknown token over the unrecognized
\* characters that follow, the way it extends whitespace.
Lexer_classify_merging_unknown(next, c) ==
    LET recognized == UnicodeWhitespace \cup AsciiAlphabetic \cup AsciiDigit \cup Punctuation \cup {"_"}
        is_unknown == [ch \in Char |-> ch \notin recognized]
    IN CASE is_whitespace[next] -> Lexer_whitespace(c)
         [] ~is_whitespace[next] /\ is_identifier_start[next] -> Lexer_identifier(c)
         [] ~is_whitespace[next] /\ ~is_identifier_start[next] /\ is_integer[next] -> Lexer_integer(c)
         [] OTHER ->
              IF next \in recognized
              THEN [kind |-> CASE next = "," -> "Comma"
                               [] next = ";" -> "Semicolon"
                               [] next = ":" -> "Colon"
                               [] next = "=" -> "Equals"
                               [] next = "-" -> "Minus"
                               [] next = ">" -> "GreaterThan"
                               [] next = "{" -> "LeftBrace"
                               [] next = "}" -> "RightBrace"
                               [] next = "(" -> "LeftParentheses"
                               [] next = ")" -> "RightParentheses",
                    cursor |-> c]
              ELSE [kind |-> "Unknown", cursor |-> Cursor_consume_while(c, is_unknown).cursor]

\* The match of Lexer::create on the character just consumed.
Lexer_classify(next, c) ==
    CASE is_whitespace[next] -> Lexer_whitespace(c)
      [] ~is_whitespace[next] /\ is_identifier_start[next] -> Lexer_identifier(c)
      [] ~is_whitespace[next] /\ ~is_identifier_start[next] /\ is_integer[next] -> Lexer_integer(c)
      [] OTHER ->
           [kind |-> CASE next = "," -> "Comma"
                       [] next = ";" -> "Semicolon"
                       [] next = ":" -> "Colon"
                       [] next = "=" -> "Equals"
                       [] next = "-" -> "Minus"
                       [] next = ">" -> "GreaterThan"
                       [] next = "{" -> "LeftBrace"
                       [] next = "}" -> "RightBrace"
                       [] next = "(" -> "LeftParentheses"
                       [] next = ")" -> "RightParentheses"
                       [] OTHER -> "Unknown",
            cursor |-> c]

Lexer_create(l) ==
    LET consumed == Cursor_consume(l.cursor)
    IN IF consumed.char = None
       THEN [result |-> None, lexer |-> [l EXCEPT !.cursor = consumed.cursor]]
       ELSE LET classified == Lexer_classify(consumed.char[1], consumed.cursor)
                closed == Cursor_close(classified.cursor)
            IN [result |-> Some([kind |-> classified.kind,
                                 start_offset |-> closed.lexeme.start_offset,
                                 length |-> closed.lexeme.length,
                                 text |-> closed.lexeme.text]),
                lexer |-> [l EXCEPT !.cursor = closed.cursor]]

\* Lexer::next synthesizing a token before it looks at the queue.
Lexer_next_create_first(l) ==
    LET created == Lexer_create(l)
    IN IF created.result # None
       THEN [result |-> created.result, lexer |-> created.lexer, panic |-> FALSE]
       ELSE IF l.queue # <<>>
       THEN [result |-> Some(Head(l.queue)), lexer |-> [l EXCEPT !.queue = Tail(@)], panic |-> FALSE]
       ELSE [result |-> None, lexer |-> created.lexer, panic |-> FALSE]

\* Lexer::next serving the queue only, never synthesizing.
Lexer_next_queue_only(l) ==
    IF l.queue # <<>>
    THEN [result |-> Some(Head(l.queue)), lexer |-> [l EXCEPT !.queue = Tail(@)], panic |-> FALSE]
    ELSE [result |-> None, lexer |-> l, panic |-> FALSE]

\* Lexer::next taking the newest queued token (pop_back) instead of the oldest.
Lexer_next_pop_back(l) ==
    IF l.queue # <<>>
    THEN [result |-> Some(l.queue[Len(l.queue)]),
          lexer |-> [l EXCEPT !.queue = SubSeq(@, 1, Len(@) - 1)], panic |-> FALSE]
    ELSE LET created == Lexer_create(l)
         IN [result |-> created.result, lexer |-> created.lexer, panic |-> FALSE]

\* Lexer::next aborting on an unrecognized character instead of returning it.
Lexer_next_abort_on_unknown(l) ==
    LET r == IF l.queue # <<>>
             THEN [result |-> Some(Head(l.queue)), lexer |-> [l EXCEPT !.queue = Tail(@)]]
             ELSE Lexer_create(l)
    IN IF r.result # None /\ r.result[1].kind = "Unknown"
       THEN [result |-> None, lexer |-> l, panic |-> TRUE]
       ELSE [result |-> r.result, lexer |-> r.lexer, panic |-> FALSE]

Lexer_next(l) ==
    IF l.queue # <<>>
    THEN [result |-> Some(Head(l.queue)), lexer |-> [l EXCEPT !.queue = Tail(@)], panic |-> FALSE]
    ELSE LET created == Lexer_create(l)
         IN [result |-> created.result, lexer |-> created.lexer, panic |-> FALSE]

\* Lexer::peek_at_offset queueing each new token at the front.
RECURSIVE Lexer_peek_at_offset_push_front(_, _)
Lexer_peek_at_offset_push_front(l, offset) ==
    IF Len(l.queue) <= offset
    THEN LET created == Lexer_create(l)
         IN IF created.result = None
            THEN [result |-> None, lexer |-> created.lexer, panic |-> FALSE]
            ELSE Lexer_peek_at_offset_push_front(
                     [created.lexer EXCEPT !.queue = <<created.result[1]>> \o @], offset)
    ELSE [result |-> Some(l.queue[offset + 1]), lexer |-> l, panic |-> FALSE]

\* Lexer::peek_at_offset dropping what it queued when the input runs out.
RECURSIVE Lexer_peek_at_offset_drop(_, _)
Lexer_peek_at_offset_drop(l, offset) ==
    IF Len(l.queue) <= offset
    THEN LET created == Lexer_create(l)
         IN IF created.result = None
            THEN [result |-> None, lexer |-> [created.lexer EXCEPT !.queue = <<>>], panic |-> FALSE]
            ELSE Lexer_peek_at_offset_drop(
                     [created.lexer EXCEPT !.queue = Append(@, created.result[1])], offset)
    ELSE [result |-> Some(l.queue[offset + 1]), lexer |-> l, panic |-> FALSE]

RECURSIVE Lexer_peek_at_offset(_, _)
Lexer_peek_at_offset(l, offset) ==
    IF Len(l.queue) <= offset
    THEN LET created == Lexer_create(l)
         IN IF created.result = None
            THEN [result |-> None, lexer |-> created.lexer, panic |-> FALSE]
            ELSE Lexer_peek_at_offset(
                     [created.lexer EXCEPT !.queue = Append(@, created.result[1])], offset)
    ELSE [result |-> Some(l.queue[offset + 1]), lexer |-> l, panic |-> FALSE]

Lexer_peek(l) == Lexer_peek_at_offset(l, 0)

\* todo!(): the call panics before it touches the lexer.
Lexer_next_kind(l, kind) == [result |-> None, lexer |-> l, panic |-> TRUE]

Lexer_peek_kind_at_offset(l, kind, offset) == [result |-> None, lexer |-> l, panic |-> TRUE]

Lexer_peek_kind(l, kind) == Lexer_peek_kind_at_offset(l, kind, 0)

\* impl Iterator for Lexer, driven to the end (Iterator::collect): the tokens
\* next() returns from lexer l on, up to its first empty result.
RECURSIVE Lexer_collect(_)
Lexer_collect(l) ==
    LET r == Lexer_next(l)
    IN IF r.result = None THEN <<>> ELSE <<r.result[1]>> \o Lexer_collect(r.lexer)

----------------------------------------------------------------------------
\* The state: the two fields of the Lexer, and a record of what its caller
\* has seen (the tokens next() returned, the last call, the tokens that were
\* still to come when it was made, and its outcome).

VARIABLES cursor, queue, returned, lastCall, before, lastResult, panicked, exhausted, peekedPastEnd, combineParts

vars == <<cursor, queue, returned, lastCall, before, lastResult, panicked, exhausted, peekedPastEnd, combineParts>>

lexer == [cursor |-> cursor, queue |-> queue]

\* The tokens next() is still to return from the current state.
Upcoming == Lexer_collect(lexer)

\* The kinds handed to next_kind / peek_kind: both compound kinds and a primitive one.
KindArgs == {"RightArrow", "PathSeparator", "Minus"}

Call(op, kind, offset) == [op |-> op, kind |-> kind, offset |-> offset]

\* The state right after construction on `text`.
Start(text) ==
    /\ cursor = Cursor_new(text)
    /\ queue = <<>>
    /\ returned = <<>>
    /\ lastCall = Call("new", "", 0)
    /\ before = <<>>
    /\ lastResult = None
    /\ panicked = FALSE
    /\ exhausted = FALSE
    /\ peekedPastEnd = FALSE
    /\ combineParts = <<>>

Init == \E text \in Inputs : Start(text)

\* The caller makes call `call` with outcome r.  A panic unwinds the caller:
\* nothing is called afterwards.
Apply(call, r) ==
    /\ ~panicked
    /\ cursor' = r.lexer.cursor
    /\ queue' = r.lexer.queue
    /\ lastCall' = call
    /\ before' = Upcoming
    /\ lastResult' = r.result
    /\ panicked' = r.panic
    /\ UNCHANGED combineParts

next ==
    LET r == Lexer_next(lexer)
    IN /\ Apply(Call("next", "", 0), r)
       /\ returned' = IF r.result = None THEN returned ELSE Append(returned, r.result[1])
       /\ exhausted' = (exhausted \/ r.result = None)
       /\ UNCHANGED peekedPastEnd

peek ==
    LET r == Lexer_peek(lexer)
    IN /\ Apply(Call("peek", "", 0), r)
       /\ peekedPastEnd' = (peekedPastEnd \/ r.result = None)
       /\ UNCHANGED <<returned, exhausted>>

peek_at_offset ==
    \E offset \in 0..MaxPeek :
        LET r == Lexer_peek_at_offset(lexer, offset)
        IN /\ Apply(Call("peek_at_offset", "", offset), r)
           /\ peekedPastEnd' = (peekedPastEnd \/ r.result = None)
           /\ UNCHANGED <<returned, exhausted>>

next_kind ==
    \E kind \in KindArgs :
        /\ Apply(Call("next_kind", kind, 0), Lexer_next_kind(lexer, kind))
        /\ UNCHANGED <<returned, exhausted, peekedPastEnd>>

peek_kind ==
    \E kind \in KindArgs :
        /\ Apply(Call("peek_kind", kind, 0), Lexer_peek_kind(lexer, kind))
        /\ UNCHANGED <<returned, exhausted, peekedPastEnd>>

peek_kind_at_offset ==
    \E kind \in KindArgs, offset \in 0..MaxKindOffset :
        /\ Apply(Call("peek_kind_at_offset", kind, offset), Lexer_peek_kind_at_offset(lexer, kind, offset))
        /\ UNCHANGED <<returned, exhausted, peekedPastEnd>>

Next ==
    \/ next
    \/ peek
    \/ peek_at_offset
    \/ next_kind
    \/ peek_kind
    \/ peek_kind_at_offset

Spec == Init /\ [][Next]_vars

----------------------------------------------------------------------------
\* Vocabulary of the properties.

\* The token stream of a fresh Lexer on the same source, drained by next() alone.
Drained == Lexer_collect(Lexer_new(cursor.text))

RECURSIVE ConcatText(_)
ConcatText(tokens) ==
    IF tokens = <<>> THEN <<>> ELSE Head(tokens).text \o ConcatText(Tail(tokens))

Kinds(tokens) == [i \in 1..Len(tokens) |-> tokens[i].kind]

IsPrefix(s, t) == Len(s) <= Len(t) /\ s = SubSeq(t, 1, Len(s))

PeekCalls == {"peek", "peek_at_offset"}

CompoundKinds == {"RightArrow", "PathSeparator"}

\* The tokens at the front of `tokens` form `kind`: they are as many as
\* decompose(kind), of those kinds in that order, each ending where the next starts.
FormsKind(kind, tokens) ==
    LET parts == TokenKind_decompose(kind)
    IN /\ Len(tokens) >= Len(parts)
       /\ \A i \in 1..Len(parts) : tokens[i].kind = parts[i]
       /\ \A i \in 1..(Len(parts) - 1) : Token_end_offset(tokens[i]) = Token_start_offset(tokens[i + 1])

\* C1: once next() has returned nothing, the texts of the tokens it returned,
\* concatenated in order, are the source text.
C1_LosslessRoundTrip == exhausted => ConcatText(returned) = Bytes(cursor.text)

C1_Witness ==
    /\ exhausted
    /\ Len(returned) >= 2
    /\ \E i \in 1..Len(cursor.text) : len_utf8(cursor.text[i]) > 1

\* C2: every two consecutive tokens returned by next() satisfy
\* token[i].end_offset() = token[i+1].start_offset().
C2_Contiguity ==
    \A i \in 1..(Len(returned) - 1) :
        Token_end_offset(returned[i]) = Token_start_offset(returned[i + 1])

\* C3: whatever peeks are interleaved, the tokens next() has returned are the
\* first tokens of the stream a fresh Lexer yields by next() alone, and all of
\* it once next() has returned nothing.
C3_PeekStability ==
    /\ IsPrefix(returned, Drained)
    /\ exhausted => returned = Drained

C3_Witness ==
    /\ lastCall.op = "next"
    /\ Len(returned) >= 2
    /\ queue # <<>>

\* C4: peek_at_offset(n) returns a token exactly when n+1 tokens were still
\* to come, namely the token the (n+1)-th next() would have returned, and it
\* leaves the tokens still to come as they were.
C4_PeekAtOffset ==
    lastCall.op \in PeekCalls =>
        /\ lastResult = IF lastCall.offset < Len(before) THEN Some(before[lastCall.offset + 1]) ELSE None
        /\ Upcoming = before

C4_Witness ==
    /\ lastCall.op = "peek_at_offset"
    /\ lastCall.offset = 1
    /\ lastResult # None
    /\ Len(returned) >= 1

\* C5: once next() has returned nothing, next(), peek() and peek_at_offset(n)
\* return nothing; on an empty source they return nothing from the first call.
C5_EndOfInputStable ==
    (lastCall.op \in PeekCalls \cup {"next"} /\ (exhausted \/ cursor.text = <<>>)) => lastResult = None

C5_Witness ==
    /\ exhausted
    /\ lastCall.op = "peek_at_offset"
    /\ Len(returned) >= 1

\* C6: after a peek past the end of input returned nothing, every token it
\* materialized is still queued: the queue holds exactly the tokens still to
\* come, a peek within them returns its token, and together with the tokens
\* already returned they are the whole stream.
C6_PeekPastEndLosesNothing ==
    peekedPastEnd =>
        /\ queue = Upcoming
        /\ returned \o queue = Drained
        /\ (lastCall.op \in PeekCalls /\ lastCall.offset < Len(before)) =>
               lastResult = Some(before[lastCall.offset + 1])

C6_Witness ==
    /\ peekedPastEnd
    /\ lastCall.op = "peek_at_offset"
    /\ lastResult # None
    /\ Len(queue) >= 2

\* C7: when the upcoming tokens form `kind`, next_kind(kind) returns one token
\* of that kind spanning them and removes exactly those tokens.
C7_NextKindSuccess ==
    (lastCall.op = "next_kind" /\ FormsKind(lastCall.kind, before)) =>
        LET k == Len(TokenKind_decompose(lastCall.kind))
        IN /\ ~panicked
           /\ lastResult # None
           /\ lastResult[1].kind = lastCall.kind
           /\ lastResult[1].start_offset = before[1].start_offset
           /\ lastResult[1].text = ConcatText(SubSeq(before, 1, k))
           /\ Upcoming = SubSeq(before, k + 1, Len(before))

\* C8: when the upcoming tokens do not form `kind`, next_kind(kind) returns
\* nothing as an ordinary result and removes no token.
C8_NextKindFailure ==
    (lastCall.op = "next_kind" /\ ~FormsKind(lastCall.kind, before)) =>
        /\ ~panicked
        /\ lastResult = None
        /\ Upcoming = before

\* C9: peek_kind(kind) / peek_kind_at_offset(kind, offset) returns the combined
\* token exactly when the tokens from `offset` on form `kind`, and never
\* removes a token.
C9_PeekKind ==
    lastCall.op \in {"peek_kind", "peek_kind_at_offset"} =>
        LET tokens == SubSeq(before, lastCall.offset + 1, Len(before))
            k == Len(TokenKind_decompose(lastCall.kind))
        IN /\ ~panicked
           /\ Upcoming = before
           /\ IF FormsKind(lastCall.kind, tokens)
              THEN /\ lastResult # None
                   /\ lastResult[1].kind = lastCall.kind
                   /\ lastResult[1].text = ConcatText(SubSeq(tokens, 1, k))
              ELSE lastResult = None

\* C10: no token the Lexer returns or holds has a compound kind; "->" is
\* returned as Minus then GreaterThan and "::" as Colon then Colon.
C10_NoImplicitCombination ==
    /\ \A i \in 1..Len(returned) : returned[i].kind \notin CompoundKinds
    /\ \A i \in 1..Len(queue) : queue[i].kind \notin CompoundKinds
    /\ \A i \in 1..Len(lastResult) : lastResult[i].kind \notin CompoundKinds
    /\ (exhausted /\ cursor.text = <<"-", ">">>) => Kinds(returned) = <<"Minus", "GreaterThan">>
    /\ (exhausted /\ cursor.text = <<":", ":">>) => Kinds(returned) = <<"Colon", "Colon">>

C10_Witness ==
    /\ exhausted
    /\ cursor.text = <<"-", ">">>
    /\ lastCall.op = "next"

----------------------------------------------------------------------------
\* TokenKind::combine applied once by a caller to tokens of the lexer, in any
\* order and number.

\* Longest source text handed to combine, and the most parts.
MaxCombineLen == 4

MaxParts == 3

CombineAlphabet == {"-", ">", ":", " ", "U+00A7"}

CombineInputs == UNION {[1..n -> CombineAlphabet] : n \in 0..MaxCombineLen}

CombineKinds == {"RightArrow", "PathSeparator", "Minus", "Unknown"}

PartLists(tokens) ==
    UNION {[1..n -> {tokens[i] : i \in 1..Len(tokens)}] : n \in 0..MaxParts}

InitCombine == \E text \in CombineInputs : Start(text)

combine ==
    \E kind \in CombineKinds, tokens \in PartLists(Drained) :
        LET r == TokenKind_combine(kind, cursor.text, tokens)
        IN /\ lastCall.op = "new"
           /\ lastCall' = Call("combine", kind, 0)
           /\ combineParts' = tokens
           /\ lastResult' = r.result
           /\ panicked' = r.panic
           /\ UNCHANGED <<cursor, queue, returned, before, exhausted, peekedPastEnd>>

NextCombine == combine

SpecCombine == InitCombine /\ [][NextCombine]_vars

\* The three conditions of combine on the parts it was given.
CombineConditions ==
    /\ combineParts # <<>>
    /\ \A i \in 1..(Len(combineParts) - 1) :
           Token_end_offset(combineParts[i]) = Token_start_offset(combineParts[i + 1])
    /\ Kinds(combineParts) = TokenKind_decompose(lastCall.kind)

\* The parts are tokens the lexer emits one right after the other.
PartsAreLexerRun ==
    /\ combineParts # <<>>
    /\ \E k \in 1..(Len(Drained) - Len(combineParts) + 1) :
           combineParts = SubSeq(Drained, k, k + Len(combineParts) - 1)

\* C11: combine returns a token if and only if the parts are non-empty, each
\* ends where the next starts, and their kinds are decompose(kind).
C11_CombineIff ==
    lastCall.op = "combine" => ((lastResult # None) <=> CombineConditions)

\* C12: when combine succeeds on consecutive tokens of the lexer, the token
\* has the requested kind, starts where the first part starts, ends where the
\* last part ends, and its text is the parts' texts concatenated.
C12_CombineSpan ==
    (lastCall.op = "combine" /\ PartsAreLexerRun /\ lastResult # None) =>
        /\ lastResult[1].kind = lastCall.kind
        /\ Token_start_offset(lastResult[1]) = Token_start_offset(combineParts[1])
        /\ Token_end_offset(lastResult[1]) = Token_end_offset(combineParts[Len(combineParts)])
        /\ lastResult[1].text = ConcatText(combineParts)

----------------------------------------------------------------------------
\* Scanning properties of the Lexer.

\* A character of none of the classes Lexer::create recognizes.
Unrecognized(c) ==
    c \notin UnicodeWhitespace \cup AsciiAlphabetic \cup AsciiDigit \cup Punctuation \cup {"_"}

\* The character of the source a token starts with.
FirstChar(t) == cursor.text[t.start_offset + 1]

ScanCalls == {"next", "peek", "peek_at_offset"}

\* C13: a token is Unknown exactly when it starts with an unrecognized
\* character; it is then one character wide with that character as its text,
\* and once the source is drained every unrecognized character has a token
\* of its own.
C13_UnknownOneCodepoint ==
    /\ \A i \in 1..Len(returned) :
           /\ returned[i].kind = "Unknown" <=> Unrecognized(FirstChar(returned[i]))
           /\ returned[i].kind = "Unknown" =>
                  /\ returned[i].length = 1
                  /\ returned[i].text = Utf8(FirstChar(returned[i]))
    /\ exhausted =>
           \A p \in 1..Len(cursor.text) :
               Unrecognized(cursor.text[p]) =>
                   \E i \in 1..Len(returned) :
                       returned[i].kind = "Unknown" /\ returned[i].start_offset = p - 1

C13_Witness ==
    /\ exhausted
    /\ \E p \in 1..(Len(cursor.text) - 1) :
           Unrecognized(cursor.text[p]) /\ Unrecognized(cursor.text[p + 1])

\* C14: while input remains, synthesizing a token consumes at least one
\* character and yields a non-empty token; at most as many tokens as the
\* source has characters are ever produced; next() returns nothing only at
\* the end of the source; and next, peek and peek_at_offset never abort.
C14_ForwardProgress ==
    /\ \A i \in 1..Len(returned) : Len(returned[i].text) > 0 /\ returned[i].length > 0
    /\ \A i \in 1..Len(queue) : Len(queue[i].text) > 0 /\ queue[i].length > 0
    /\ Len(returned) + Len(queue) <= cursor.iterator
    /\ Len(returned) + Len(Upcoming) <= Len(cursor.text)
    /\ lastCall.op \in ScanCalls => ~panicked
    /\ (lastCall.op = "next" /\ lastResult = None) =>
           cursor.iterator = Len(cursor.text) /\ queue = <<>>
    /\ cursor.iterator < Len(cursor.text) =>
           LET created == Lexer_create(lexer)
           IN /\ created.result # None
              /\ created.lexer.cursor.iterator > cursor.iterator

C14_Witness ==
    /\ exhausted
    /\ Len(returned) >= 2
    /\ \E p \in 1..Len(cursor.text) : Unrecognized(cursor.text[p])

----------------------------------------------------------------------------
\* The Lexer on identifiers and keywords: sources made of the keyword
\* spellings, of near misses of them and of short words.

\* The spelling the KeywordKind enum documents for each of its variants.
KeywordSpelling(k) ==
    CASE k = "Module" -> <<"m", "o", "d", "u", "l", "e">>
      [] k = "Class" -> <<"c", "l", "a", "s", "s">>
      [] k = "Field" -> <<"l", "e", "t">>
      [] k = "Function" -> <<"f", "u", "n", "c", "t", "i", "o", "n">>
      [] k = "Constant" -> <<"c", "o", "n", "s", "t", "a", "n", "t">>
      [] k = "Mutable" -> <<"m", "u", "t", "a", "b", "l", "e">>

KeywordAlphabet == {"l", "e", "t", "1", "_"}

\* A spelling, a spelling with a character after or before it, a spelling cut short.
KeywordWords ==
    LET spellings == {KeywordSpelling(k) : k \in KeywordKind}
    IN spellings
       \cup {w \o <<c>> : w \in spellings, c \in {"s", "1", "_"}}
       \cup {<<c>> \o w : w \in spellings, c \in {"_", "a"}}
       \cup {SubSeq(w, 1, Len(w) - 1) : w \in spellings}

KeywordInputs ==
    KeywordWords
    \cup {KeywordSpelling(k) \o <<" ">> \o w : k \in KeywordKind, w \in KeywordWords}
    \cup UNION {[1..n -> KeywordAlphabet] : n \in 0..MaxLen}

InitKeyword == \E text \in KeywordInputs : Start(text)

NextKeyword ==
    \/ next
    \/ peek

SpecKeyword == InitKeyword /\ [][NextKeyword]_vars

\* The token is a whole identifier run: it starts with a letter or an
\* underscore and the character after it, if any, cannot continue it.
IsIdentifierRun(t) ==
    /\ FirstChar(t) \in AsciiAlphabetic \cup {"_"}
    /\ t.start_offset + t.length < Len(cursor.text) =>
           cursor.text[t.start_offset + t.length + 1] \notin AsciiAlphabetic \cup AsciiDigit \cup {"_"}

\* C15: an identifier run is emitted as Keyword(k) exactly when its whole
\* text is the spelling of k, and as Identifier otherwise; nothing else is
\* emitted as a keyword or an identifier.
C15_KeywordOverride ==
    \A i \in 1..Len(returned) :
        LET t == returned[i]
        IN /\ \A k \in KeywordKind : t.kind = Keyword(k) <=> t.text = KeywordSpelling(k)
           /\ t.kind = "Identifier" <=>
                  (FirstChar(t) \in AsciiAlphabetic \cup {"_"}
                   /\ \A k \in KeywordKind : t.text # KeywordSpelling(k))
           /\ t.kind \in {"Identifier"} \cup {Keyword(k) : k \in KeywordKind} => IsIdentifierRun(t)

C15_Witness ==
    /\ exhausted
    /\ Len(returned) = 3
    /\ returned[1].kind = "Keyword(Field)"
    /\ returned[3].kind = "Identifier"
    /\ returned[3].text = <<"l", "e", "t", "s">>

----------------------------------------------------------------------------
\* Offsets, classification and ordering of the tokens of the Lexer (under Spec).

\* C16: for every token returned, start_offset() is the number of characters
\* of the source before it and length() the number of characters of its text.
C16_OffsetsInCharacters ==
    \A i \in 1..Len(returned) :
        /\ Token_start_offset(returned[i]) = chars_count(ConcatText(SubSeq(returned, 1, i - 1)))
        /\ Token_length(returned[i]) = chars_count(returned[i].text)

\* The text of every returned token is the source from start_offset() to
\* end_offset(), offsets counting bytes / counting characters.
TextIsByteSlice ==
    \A i \in 1..Len(returned) :
        /\ Token_end_offset(returned[i]) <= Len(Bytes(cursor.text))
        /\ returned[i].text =
               SubSeq(Bytes(cursor.text), Token_start_offset(returned[i]) + 1, Token_end_offset(returned[i]))

TextIsCharSlice ==
    \A i \in 1..Len(returned) :
        /\ Token_end_offset(returned[i]) <= Len(cursor.text)
        /\ returned[i].text =
               Bytes(SubSeq(cursor.text, Token_start_offset(returned[i]) + 1, Token_end_offset(returned[i])))

\* C17: every token returned has end_offset() = start_offset() + length(),
\* and in one addressing unit, the same for all tokens, its text is the
\* source from start_offset() to end_offset().
C17_TokenInvariant ==
    /\ \A i \in 1..Len(returned) :
           Token_end_offset(returned[i]) = Token_start_offset(returned[i]) + Token_length(returned[i])
    /\ TextIsByteSlice \/ TextIsCharSlice

\* The kinds a token starting with character c may have, by the priority
\* order whitespace, identifier start, digit, single-character table, Unknown.
KindsByFirstChar(c) ==
    CASE c \in UnicodeWhitespace -> {"Whitespace"}
      [] c \notin UnicodeWhitespace /\ c \in AsciiAlphabetic \cup {"_"} ->
           {"Identifier"} \cup {Keyword(k) : k \in KeywordKind}
      [] c \notin UnicodeWhitespace \cup AsciiAlphabetic \cup {"_"} /\ c \in AsciiDigit -> {"Integer"}
      [] OTHER ->
           {CASE c = "," -> "Comma"
              [] c = ";" -> "Semicolon"
              [] c = ":" -> "Colon"
              [] c = "=" -> "Equals"
              [] c = "-" -> "Minus"
              [] c = ">" -> "GreaterThan"
              [] c = "{" -> "LeftBrace"
              [] c = "}" -> "RightBrace"
              [] c = "(" -> "LeftParentheses"
              [] c = ")" -> "RightParentheses"
              [] OTHER -> "Unknown"}

\* Character c continues a token of kind `kind`.
Continues(kind, c) ==
    CASE kind = "Whitespace" -> c \in UnicodeWhitespace
      [] kind = "Integer" -> c \in AsciiDigit
      [] kind \in {"Identifier"} \cup {Keyword(k) : k \in KeywordKind} ->
           c \in AsciiAlphabetic \cup AsciiDigit \cup {"_"}
      [] OTHER -> FALSE

\* C18: the kind of every token is the one its first character selects; the
\* token extends over exactly the following characters that continue it;
\* "a1" is one Identifier and "1a" is Integer then Identifier.
C18_PrimitiveClassification ==
    /\ \A i \in 1..Len(returned) :
           LET t == returned[i]
               last == t.start_offset + t.length
           IN /\ t.kind \in KindsByFirstChar(FirstChar(t))
              /\ \A p \in (t.start_offset + 2)..last : Continues(t.kind, cursor.text[p])
              /\ last < Len(cursor.text) => ~Continues(t.kind, cursor.text[last + 1])
              /\ t.text = Bytes(SubSeq(cursor.text, t.start_offset + 1, last))
    /\ (exhausted /\ cursor.text = <<"a", "1">>) => Kinds(returned) = <<"Identifier">>
    /\ (exhausted /\ cursor.text = <<"1", "a">>) => Kinds(returned) = <<"Integer", "Identifier">>

C18_Witness ==
    /\ exhausted
    /\ cursor.text = <<"1", "a", "1">>
    /\ Kinds(returned) = <<"Integer", "Identifier">>

\* C19: no call moves the cursor backwards, and the queue is first in, first
\* out: next() takes the oldest queued token, a peek only appends to the
\* queue, and the tokens returned followed by the tokens queued are the
\* first tokens of the source, in source order.
C19_MonotoneCursorFifoQueue ==
    [][/\ cursor'.iterator >= cursor.iterator
       /\ cursor'.char_offset >= cursor.char_offset
       /\ cursor'.byte_offset >= cursor.byte_offset
       /\ IsPrefix(returned' \o queue', Lexer_collect(Lexer_new(cursor'.text)))
       /\ (lastCall'.op = "next" /\ queue # <<>>) =>
              lastResult' = Some(Head(queue)) /\ queue' = Tail(queue)
       /\ lastCall'.op \in PeekCalls => IsPrefix(queue, queue')]_vars

C19_Witness ==
    /\ lastCall.op = "next"
    /\ Len(queue) = 2
    /\ Len(returned) = 1

----------------------------------------------------------------------------
\* The Cursor used on its own (lexeme.rs): a caller holding a Cursor over a
\* text calls its methods in any order.  Only `cursor`, `lastCall`,
\* `lastResult` and `before` change; the result of a call is kept as
\* Some(value) or None, and `before` keeps the lexeme closed last, if any.

Predicates == {"is_whitespace", "is_identifier_continue", "is_integer"}

Predicate(name) ==
    CASE name = "is_whitespace" -> is_whitespace
      [] name = "is_identifier_continue" -> is_identifier_continue
      [] name = "is_integer" -> is_integer

CursorStep(call, after, result, closed) ==
    /\ cursor' = after
    /\ lastCall' = call
    /\ lastResult' = result
    /\ before' = closed
    /\ UNCHANGED <<queue, returned, panicked, exhausted, peekedPastEnd, combineParts>>

cursor_consume ==
    LET r == Cursor_consume(cursor)
    IN CursorStep(Call("consume", "", 0), r.cursor, r.char, before)

cursor_close ==
    LET r == Cursor_close(cursor)
    IN CursorStep(Call("close", "", 0), r.cursor, Some(r.lexeme), Some(r.lexeme))

cursor_consume_while ==
    \E name \in Predicates :
        LET r == Cursor_consume_while(cursor, Predicate(name))
        IN CursorStep(Call("consume_while", name, 0), r.cursor, Some(r.consumed), before)

cursor_peek ==
    CursorStep(Call("peek", "", 0), cursor, Cursor_peek(cursor), before)

cursor_peek_at_offset ==
    \E offset \in 0..MaxPeek :
        CursorStep(Call("peek_at_offset", "", offset), cursor, Cursor_peek_at_offset(cursor, offset), before)

InitCursor == \E text \in Inputs : Start(text)

NextCursor ==
    \/ cursor_consume
    \/ cursor_close
    \/ cursor_consume_while
    \/ cursor_peek
    \/ cursor_peek_at_offset

SpecCursor == InitCursor /\ [][NextCursor]_vars

\* C20: a consume() with no character left returns None and leaves the
\* cursor as it was, so close() returns the same lexeme as without it; a
\* consume() with a character left returns that character, and the open
\* lexeme keeps its start, grows by one in length and by that character's
\* encoding in text.
C20_ConsumeAtEnd ==
    [][lastCall'.op = "consume" =>
          IF Cursor_peek(cursor) = None
          THEN /\ lastResult' = None
               /\ cursor' = cursor
               /\ Cursor_close(cursor').lexeme = Cursor_close(cursor).lexeme
          ELSE LET char == cursor.text[cursor.char_offset + cursor.char_length + 1]
               IN /\ lastResult' = Some(char)
                  /\ Cursor_current(cursor').start_offset = Cursor_current(cursor).start_offset
                  /\ Cursor_current(cursor').length = Cursor_current(cursor).length + 1
                  /\ Cursor_current(cursor').text = Cursor_current(cursor).text \o Utf8(char)]_vars

C20_Witness ==
    /\ lastCall.op = "consume"
    /\ lastResult = None
    /\ Cursor_current(cursor).length >= 1
    /\ Cursor_current(cursor).start_offset >= 1

\* The characters of the text not yet consumed.
Unconsumed ==
    SubSeq(cursor.text, cursor.char_offset + cursor.char_length + 1, Len(cursor.text))

\* C21: peek() and peek_at_offset(n) return the n-th character not yet
\* consumed, None if fewer than n+1 remain, and leave the cursor as it was:
\* the next consume() and the next close() give what they would have given.
C21_PeekNonDestructive ==
    [][lastCall'.op \in {"peek", "peek_at_offset"} =>
          /\ lastResult' = IF lastCall'.offset < Len(Unconsumed)
                           THEN Some(Unconsumed[lastCall'.offset + 1])
                           ELSE None
          /\ cursor' = cursor
          /\ Cursor_consume(cursor') = Cursor_consume(cursor)
          /\ Cursor_close(cursor') = Cursor_close(cursor)]_vars

C21_Witness ==
    /\ lastCall.op = "peek_at_offset"
    /\ lastCall.offset = 1
    /\ lastResult = Some("U+00A7")
    /\ Cursor_current(cursor).length = 1

\* C22: close() returns the characters consumed since the previous close:
\* the lexeme starts where the lexeme closed before it ended (at 0 for the
\* first), its length is the number of characters consumed since, and its
\* text is the source from start_offset to start_offset + length, counted in
\* characters; the open lexeme is empty afterwards, at the end of the one
\* returned; with nothing consumed the lexeme is empty and the cursor is
\* left as it was.
C22_CloseTilesPrefix ==
    [][lastCall'.op = "close" =>
          LET lexeme == lastResult'[1]
          IN /\ lexeme.start_offset = IF before = None THEN 0
                                      ELSE before[1].start_offset + before[1].length
             /\ lexeme.start_offset + lexeme.length = cursor.iterator
             /\ lexeme.text =
                    Bytes(SubSeq(cursor.text, lexeme.start_offset + 1, lexeme.start_offset + lexeme.length))
             /\ Cursor_current(cursor') =
                    [start_offset |-> lexeme.start_offset + lexeme.length, length |-> 0, text |-> <<>>]
             /\ cursor'.iterator = cursor.iterator
             /\ lexeme.length = 0 => lexeme.text = <<>> /\ cursor' = cursor]_vars

C22_Witness ==
    /\ lastCall.op = "close"
    /\ lastResult = Some([start_offset |-> 1, length |-> 2, text |-> <<"C2", "A7", "a">>])

----------------------------------------------------------------------------
\* KeywordKind on its own (token.rs): a caller holding a string parses it
\* with KeywordKind::try_from, or renders a KeywordKind with Display.  The
\* string is the text of `cursor`; `lastResult` keeps what the call gave.

KeywordStep(call, result) ==
    /\ lastCall' = call
    /\ lastResult' = result
    /\ UNCHANGED <<cursor, queue, returned, before, panicked, exhausted, peekedPastEnd, combineParts>>

try_from ==
    KeywordStep(Call("try_from", "", 0), KeywordKind_try_from(Bytes(cursor.text)))

fmt ==
    \E k \in KeywordKind :
        KeywordStep(Call("fmt", k, 0), Some(KeywordKind_fmt(k)))

InitKeywordKind == \E text \in KeywordInputs : Start(text)

NextKeywordKind ==
    \/ try_from
    \/ fmt

SpecKeywordKind == InitKeywordKind /\ [][NextKeywordKind]_vars

\* C23: the spelling Display renders for k parses back to k; a string that
\* parses to k is the spelling Display renders for k; no two keyword kinds
\* are rendered alike.
C23_KeywordBidirectional ==
    /\ lastCall.op = "fmt" => KeywordKind_try_from(lastResult[1]) = Some(lastCall.kind)
    /\ (lastCall.op = "try_from" /\ lastResult # None) =>
           (lastResult[1] \in KeywordKind /\ KeywordKind_fmt(lastResult[1]) = Bytes(cursor.text))
    /\ \A k1, k2 \in KeywordKind : KeywordKind_fmt(k1) = KeywordKind_fmt(k2) => k1 = k2

C23_Witness ==
    /\ lastCall.op = "try_from"
    /\ lastResult = Some("Field")
    /\ cursor.text = <<"l", "e", "t">>

----------------------------------------------------------------------------
\* The lookahead queue and adjacent tokens of the Lexer.

\* C24: every Lexer operation that completes leaves no open lexeme; the
\* tokens returned and then the tokens queued are the tokens of the source
\* up to the cursor; each queued token starts where the one before it ends,
\* and the last one ends at the cursor's position (in characters or in
\* bytes); peek_at_offset(n) on a queue of q tokens leaves at most
\* max(q, n + 1) tokens queued.
C24_LookaheadQueueInvariant ==
    [][~panicked' =>
          /\ Cursor_current(cursor').length = 0
          /\ Cursor_current(cursor').text = <<>>
          /\ IsPrefix(returned' \o queue', Lexer_collect(Lexer_new(cursor'.text)))
          /\ ConcatText(returned' \o queue') = SubSeq(Bytes(cursor'.text), 1, cursor'.byte_offset)
          /\ \A i \in 1..(Len(queue') - 1) :
                 Token_start_offset(queue'[i + 1]) = Token_end_offset(queue'[i])
          /\ queue' # <<>> =>
                 Token_end_offset(queue'[Len(queue')]) \in {cursor'.char_offset, cursor'.byte_offset}
          /\ lastCall'.op \in {"peek", "peek_at_offset"} =>
                 Len(queue') <= IF Len(queue) > lastCall'.offset + 1
                                THEN Len(queue) ELSE lastCall'.offset + 1]_vars

\* Texts of whitespace, letters, digits and underscores, and the keyword
\* spellings followed by such texts.
MunchAlphabet == {" ", "\t", "a", "1", "_"}

MunchWords == UNION {[1..n -> MunchAlphabet] : n \in 0..MaxLen}

MunchInputs == MunchWords \cup {KeywordSpelling(k) \o w : k \in KeywordKind, w \in MunchWords}

InitMunch == \E text \in MunchInputs : Start(text)

NextMunch ==
    \/ next
    \/ peek_at_offset

SpecMunch == InitMunch /\ [][NextMunch]_vars

WordKinds == {"Identifier"} \cup {Keyword(k) : k \in KeywordKind}

\* C25: among the tokens taken from the source so far, in source order, no
\* Whitespace is directly followed by a Whitespace, no Integer by an
\* Integer, and no Identifier or Keyword by an Identifier, Keyword or Integer.
C25_MaximalMunch ==
    LET tokens == returned \o queue
    IN \A i \in 1..(Len(tokens) - 1) :
           /\ tokens[i].kind = "Whitespace" => tokens[i + 1].kind # "Whitespace"
           /\ tokens[i].kind = "Integer" => tokens[i + 1].kind # "Integer"
           /\ tokens[i].kind \in WordKinds => tokens[i + 1].kind \notin WordKinds \cup {"Integer"}

C25_Witness ==
    /\ exhausted
    /\ cursor.text = <<"l", "e", "t", " ", "\t", "1">>
    /\ Kinds(returned) = <<"Keyword(Field)", "Whitespace", "Integer">>

====
